---- MODULE Spec2Model ----
(***************************************************************************)
(* Backend resolution and factory layer of restic: isPath, extractScheme,  *)
(* parseLocation, StripPassword (internal/backend/location/location.go)    *)
(* and parseConfig, Open, Create (the backend factory).                    *)
(*                                                                         *)
(* Strings are sequences of byte values, so that prefix tests, indexing    *)
(* and the drive-letter range comparisons are computed as the Go code      *)
(* computes them.                                                          *)
(***************************************************************************)
EXTENDS Integers, Sequences, FiniteSets, TLC

\* ---------------------------------------------------------------- bounds
\* longest probe string handed to isPath / parseLocation
MaxLen == 3
\* longest free-form location string handed to Open / Create
MaxLocLen == 3

\* ------------------------------------------------------------ characters
Dot == 46
Slash == 47
Backslash == 92
Colon == 58

\* bytes used to build probe strings: separators, ':', letters at both ends
\* of both ranges, and the bytes right outside the two letter ranges
ProbeBytes == {Dot, Slash, Backslash, Colon, 97, 122, 65, 90, 96, 123, 64, 91, 49}
\* bytes used to build free-form locations for Open / Create
LocBytes == {Slash, Colon, 97, Dot}

RECURSIVE StringsUpTo(_, _)
StringsUpTo(bytes, n) ==
    IF n = 0 THEN {<<>>}
    ELSE LET shorter == StringsUpTo(bytes, n - 1)
         IN  shorter \cup {Append(t, b) : t \in shorter, b \in bytes}

\* ------------------------------------------------------- strings package
HasPrefix(s, p) == Len(s) >= Len(p) /\ SubSeq(s, 1, Len(p)) = p

ContainsRune(s, c) == \E i \in 1..Len(s) : s[i] = c

RECURSIVE IndexFrom(_, _, _)
IndexFrom(s, c, i) ==
    IF i > Len(s) THEN 0
    ELSE IF s[i] = c THEN i
    ELSE IndexFrom(s, c, i + 1)

\* 1-based index of the first c in s, 0 if there is none
IndexByte(s, c) == IndexFrom(s, c, 1)

\* sub occurs in s as a contiguous substring
Contains(s, sub) ==
    \E i \in 1..(Len(s) + 1) :
        i + Len(sub) - 1 <= Len(s) /\ SubSeq(s, i, i + Len(sub) - 1) = sub

\* ------------------------------------------------------------- location.go
S_b2 == <<98, 50>>
S_local == <<108, 111, 99, 97, 108>>
S_sftp == <<115, 102, 116, 112>>
S_s3 == <<115, 51>>
S_gs == <<103, 115>>
S_azure == <<97, 122, 117, 114, 101>>
S_swift == <<115, 119, 105, 102, 116>>
S_rest == <<114, 101, 115, 116>>
S_rclone == <<114, 99, 108, 111, 110, 101>>

\* names used for the backends in records and traces
SchemeName(b) ==
    CASE b = S_b2 -> "b2"
      [] b = S_local -> "local"
      [] b = S_sftp -> "sftp"
      [] b = S_s3 -> "s3"
      [] b = S_gs -> "gs"
      [] b = S_azure -> "azure"
      [] b = S_swift -> "swift"
      [] b = S_rest -> "rest"
      [] b = S_rclone -> "rclone"
      [] OTHER -> "?"

parsers == <<
    [scheme |-> S_b2, parse |-> "b2.ParseConfig", stripPassword |-> "noPassword"],
    [scheme |-> S_local, parse |-> "local.ParseConfig", stripPassword |-> "noPassword"],
    [scheme |-> S_sftp, parse |-> "sftp.ParseConfig", stripPassword |-> "noPassword"],
    [scheme |-> S_s3, parse |-> "s3.ParseConfig", stripPassword |-> "noPassword"],
    [scheme |-> S_gs, parse |-> "gs.ParseConfig", stripPassword |-> "noPassword"],
    [scheme |-> S_azure, parse |-> "azure.ParseConfig", stripPassword |-> "noPassword"],
    [scheme |-> S_swift, parse |-> "swift.ParseConfig", stripPassword |-> "noPassword"],
    [scheme |-> S_rest, parse |-> "rest.ParseConfig", stripPassword |-> "rest.StripPassword"],
    [scheme |-> S_rclone, parse |-> "rclone.ParseConfig", stripPassword |-> "noPassword"] >>

noPassword(s) == s

\* the drive-letter test with the lower bound of the first range exclusive
isDriveLetter_offByOne(drive) == (drive > 97 /\ drive <= 122) \/ (drive >= 65 /\ drive <= 90)

\* the drive-letter test at "check for drive paths", negated there
isDriveLetter(drive) == (drive >= 97 /\ drive <= 122) \/ (drive >= 65 /\ drive <= 90)

isPath(s) ==
    IF HasPrefix(s, <<Dot, Dot, Slash>>) \/ HasPrefix(s, <<Dot, Dot, Backslash>>) THEN TRUE
    ELSE IF HasPrefix(s, <<Slash>>) \/ HasPrefix(s, <<Backslash>>) THEN TRUE
    ELSE IF Len(s) < 3 THEN FALSE
    ELSE IF ~isDriveLetter(s[1]) THEN FALSE
    ELSE IF s[2] # Colon THEN FALSE
    ELSE IF s[3] # Backslash /\ s[3] # Slash THEN FALSE
    ELSE TRUE

\* strings.SplitN(s, ":", 2)[0]
extractScheme(s) ==
    LET i == IndexByte(s, Colon)
    IN  IF i = 0 THEN s ELSE SubSeq(s, 1, i - 1)

\* the range loop over the parser table: index of the first entry whose
\* scheme equals the given one, 0 when the loop falls through
RECURSIVE FindParser(_, _)
FindParser(scheme, i) ==
    IF i > Len(parsers) THEN 0
    ELSE IF parsers[i].scheme # scheme THEN FindParser(scheme, i + 1)
    ELSE i

\* ------------------------------------------------------------------ errors
\* An error value: kind identifies where it was made, fatal is set by
\* errors.Fatalf, msg is the text as a sequence of parts.  A part is a
\* literal piece of a format string (lit) or a location string (text).
Lit(l) == [lit |-> l, text |-> <<>>]
Loc(s) == [lit |-> "%v", text |-> s]

NilErr == [kind |-> "nil", fatal |-> FALSE, msg |-> <<>>]

\* errors.New
New(kind, parts) == [kind |-> kind, fatal |-> FALSE, msg |-> parts]

\* errors.Fatalf: a new fatal error holding the formatted text only
Fatalf(kind, parts) == [kind |-> kind, fatal |-> TRUE, msg |-> parts]

\* the text of err includes the string x
MsgIncludes(err, x) == \E i \in 1..Len(err.msg) : Contains(err.msg[i].text, x)

\* the text of err includes the literal l (a piece of a format string, or
\* the name of an environment variable inside it)
MsgHasLit(err, l) == \E i \in 1..Len(err.msg) : err.msg[i].lit = l

\* errors.New("invalid backend\nIf the repo is in a local directory, you
\* need to add a `local:` prefix")
AmbiguousText == "invalid backend; if the repo is in a local directory, add a local: prefix"

\* ----------------------------------------------------------------- configs
\* A backend Config.  type is the Go type (the backend that parsed it); the
\* credential and identifier fields of all backends are carried in one
\* record, a field that the type does not have stays "".
NoConfig == [type |-> "nil", KeyID |-> "", Secret |-> "", Region |-> "", ProjectID |-> "",
             AccountName |-> "", AccountKey |-> "", AccountID |-> "", Key |-> ""]

\* values a location string can embed in a field / a variable can hold
CfgValues == {"", "cfg"}
EnvValues == {"", "env"}

\* what <scheme>.ParseConfig can return on success
ConfigsOf(type) ==
    CASE type = "s3" ->
           {[NoConfig EXCEPT !.type = type, !.KeyID = k, !.Secret = x, !.Region = r] :
               k \in CfgValues, x \in CfgValues, r \in CfgValues}
      [] type = "gs" ->
           {[NoConfig EXCEPT !.type = type, !.ProjectID = k] : k \in CfgValues}
      [] type = "azure" ->
           {[NoConfig EXCEPT !.type = type, !.AccountName = k, !.AccountKey = x] :
               k \in CfgValues, x \in CfgValues}
      [] type = "b2" ->
           {[NoConfig EXCEPT !.type = type, !.AccountID = k, !.Key = x] :
               k \in CfgValues, x \in CfgValues}
      [] OTHER -> {[NoConfig EXCEPT !.type = type]}

\* rest.StripPassword: in "rest:" + user ":" password "@" host the password
\* is replaced by "***"; anything else is returned as it is
restStripPassword(s) ==
    LET body == SubSeq(s, 6, Len(s))
        at == IndexByte(body, 64)
        userinfo == SubSeq(body, 1, at - 1)
        c == IndexByte(userinfo, Colon)
    IN  IF Len(s) < 5 \/ at = 0 \/ c = 0 THEN s
        ELSE SubSeq(s, 1, 5) \o SubSeq(userinfo, 1, c) \o <<42, 42, 42>>
                 \o SubSeq(body, at, Len(body))

\* ------------------------------------------------- parseLocation and after
NoLocation == [Scheme |-> <<>>, Config |-> NoConfig]

\* the ambiguity test with "or", as its comment words it
IsAmbiguous_or(s) == ~isPath(s) \/ ContainsRune(s, Colon)

\* "if s is not a path or contains ":", it's ambiguous": the test made once
\* no table entry matched
IsAmbiguous(s) == ~isPath(s) /\ ContainsRune(s, Colon)

\* P holds what the collaborators answer on this input:
\*   P.parseOk, P.cfg        the matched table parser called on s
\*   P.localOk               local.ParseConfig called on "local:" + s
\* calls lists the collaborator parsers that were called, with their argument
parseLocation(s, P) ==
    LET scheme == extractScheme(s)
        i == FindParser(scheme, 1)
    IN  IF i # 0
        THEN IF ~P.parseOk
             THEN [u |-> NoLocation, err |-> New("parse", <<Lit(parsers[i].parse)>>),
                   calls |-> <<[fn |-> parsers[i].parse, arg |-> s]>>]
             ELSE [u |-> [Scheme |-> scheme, Config |-> P.cfg], err |-> NilErr,
                   calls |-> <<[fn |-> parsers[i].parse, arg |-> s]>>]
        ELSE IF IsAmbiguous(s)
        THEN [u |-> NoLocation, err |-> New("ambiguous", <<Lit(AmbiguousText)>>),
              calls |-> <<>>]
        ELSE IF ~P.localOk
        THEN [u |-> NoLocation, err |-> New("parse", <<Lit("local.ParseConfig")>>),
              calls |-> <<[fn |-> "local.ParseConfig", arg |-> S_local \o <<Colon>> \o s]>>]
        ELSE [u |-> [Scheme |-> S_local, Config |-> [NoConfig EXCEPT !.type = "local"]],
              err |-> NilErr,
              calls |-> <<[fn |-> "local.ParseConfig", arg |-> S_local \o <<Colon>> \o s]>>]

StripPassword(s) ==
    LET scheme == extractScheme(s)
        i == FindParser(scheme, 1)
    IN  IF i = 0 THEN s
        ELSE IF parsers[i].stripPassword = "rest.StripPassword" THEN restStripPassword(s)
        ELSE noPassword(s)

\* ------------------------------------------------------------- parseConfig
\* the process environment, as os.Getenv reads it ("" when unset)
EnvVars == {"AWS_ACCESS_KEY_ID", "AWS_SECRET_ACCESS_KEY", "AWS_DEFAULT_REGION",
            "GOOGLE_PROJECT_ID", "AZURE_ACCOUNT_NAME", "AZURE_ACCOUNT_KEY",
            "B2_ACCOUNT_ID", "B2_ACCOUNT_KEY"}

Getenv(env, name) == env[name]

\* the x.(T) type assertion on loc.Config
HasType(cfg, type) == cfg.type = type

\* the fallback with the environment taking precedence
Fallback_envFirst(value, fromEnv) == IF fromEnv # "" THEN fromEnv ELSE value

\* if cfg.X == "" { cfg.X = os.Getenv(name) }: the value of X afterwards
Fallback(value, fromEnv) == IF value = "" THEN fromEnv ELSE value

PanicErr == [kind |-> "panic", fatal |-> FALSE, msg |-> <<Lit("interface conversion")>>]

\* opts.Apply(loc.Scheme, &cfg): fails on an unknown key or a value of the
\* wrong type, else sets option fields of cfg; none of the credential and
\* identifier fields carried here is changed by it
Apply(cfg, applyOk) ==
    IF applyOk THEN [cfg |-> cfg, err |-> NilErr]
    ELSE [cfg |-> cfg, err |-> Fatalf("apply", <<Lit("option is not valid")>>)]

\* the common tail of every case: apply the options, return the config
ApplyAndReturn(cfg, A) ==
    LET a == Apply(cfg, A.applyOk)
    IN  IF a.err # NilErr
        THEN [cfg |-> NoConfig, err |-> a.err, filled |-> cfg, invalid |-> FALSE]
        ELSE [cfg |-> a.cfg, err |-> NilErr, filled |-> cfg, invalid |-> FALSE]

ConfigFail(err) == [cfg |-> NoConfig, err |-> err, filled |-> NoConfig, invalid |-> FALSE]

parseConfigS3(cfg0, env, A) ==
    LET cfg1 == [cfg0 EXCEPT !.KeyID = Fallback(cfg0.KeyID, Getenv(env, "AWS_ACCESS_KEY_ID"))]
        cfg2 == [cfg1 EXCEPT !.Secret = Fallback(cfg1.Secret, Getenv(env, "AWS_SECRET_ACCESS_KEY"))]
        cfg3 == [cfg2 EXCEPT !.Region = Fallback(cfg2.Region, Getenv(env, "AWS_DEFAULT_REGION"))]
    IN  IF cfg2.KeyID = "" /\ cfg2.Secret # ""
        THEN ConfigFail(Fatalf("credential",
                 <<Lit("unable to open S3 backend: Key ID ($"), Lit("AWS_ACCESS_KEY_ID"), Lit(") is empty")>>))
        ELSE IF cfg2.KeyID # "" /\ cfg2.Secret = ""
        THEN ConfigFail(Fatalf("credential",
                 <<Lit("unable to open S3 backend: Secret ($"), Lit("AWS_SECRET_ACCESS_KEY"), Lit(") is empty")>>))
        ELSE ApplyAndReturn(cfg3, A)

parseConfigGS(cfg0, env, A) ==
    LET cfg1 == [cfg0 EXCEPT !.ProjectID = Fallback(cfg0.ProjectID, Getenv(env, "GOOGLE_PROJECT_ID"))]
    IN  ApplyAndReturn(cfg1, A)

parseConfigAzure(cfg0, env, A) ==
    LET cfg1 == [cfg0 EXCEPT !.AccountName = Fallback(cfg0.AccountName, Getenv(env, "AZURE_ACCOUNT_NAME"))]
        cfg2 == [cfg1 EXCEPT !.AccountKey = Fallback(cfg1.AccountKey, Getenv(env, "AZURE_ACCOUNT_KEY"))]
    IN  ApplyAndReturn(cfg2, A)

parseConfigB2(cfg0, env, A) ==
    LET cfg1 == [cfg0 EXCEPT !.AccountID = Fallback(cfg0.AccountID, Getenv(env, "B2_ACCOUNT_ID"))]
        cfg2 == [cfg1 EXCEPT !.Key = Fallback(cfg1.Key, Getenv(env, "B2_ACCOUNT_KEY"))]
    IN  IF cfg1.AccountID = ""
        THEN ConfigFail(Fatalf("credential",
                 <<Lit("unable to open B2 backend: Account ID ($"), Lit("B2_ACCOUNT_ID"), Lit(") is empty")>>))
        ELSE IF cfg2.Key = ""
        THEN ConfigFail(Fatalf("credential",
                 <<Lit("unable to open B2 backend: Key ($"), Lit("B2_ACCOUNT_KEY"), Lit(") is empty")>>))
        ELSE ApplyAndReturn(cfg2, A)

\* swift.ApplyEnvironment("", &cfg) can fail; its fields are not carried here
parseConfigSwift(cfg0, env, A) ==
    IF ~A.swiftEnvOk THEN ConfigFail(New("swiftenv", <<Lit("swift.ApplyEnvironment")>>))
    ELSE ApplyAndReturn(cfg0, A)

\* the switch without its last case
ConfigCases_noRclone == {"local", "sftp", "s3", "gs", "azure", "swift", "b2", "rest"}

\* the cases of parseConfig's switch
ConfigCases == {"local", "sftp", "s3", "gs", "azure", "swift", "b2", "rest", "rclone"}

\* A.applyOk, A.swiftEnvOk: what opts.Apply and swift.ApplyEnvironment answer.
\* Result: cfg and err are what is returned; filled is the config as the
\* environment fallback left it (NoConfig if validation failed before);
\* invalid tells that the final "invalid backend" return was reached.
parseConfig(loc, env, A) ==
    LET name == SchemeName(loc.Scheme)
    IN  IF name \notin ConfigCases
        THEN [cfg |-> NoConfig, err |-> Fatalf("invalid", <<Lit("invalid backend: "), Loc(loc.Scheme)>>),
              filled |-> NoConfig, invalid |-> TRUE]
        ELSE IF ~HasType(loc.Config, name) THEN ConfigFail(PanicErr)
        ELSE CASE name = "s3" -> parseConfigS3(loc.Config, env, A)
               [] name = "gs" -> parseConfigGS(loc.Config, env, A)
               [] name = "azure" -> parseConfigAzure(loc.Config, env, A)
               [] name = "swift" -> parseConfigSwift(loc.Config, env, A)
               [] name = "b2" -> parseConfigB2(loc.Config, env, A)
               [] OTHER -> ApplyAndReturn(loc.Config, A)

\* ---------------------------------------------------------- Open and Create
\* A backend handle: the backend that made it, the transport and the limiter
\* its constructor was given, and whether limiter.LimitBackend wraps it.
NilBackend == [scheme |-> "nil", rt |-> "nil", lim |-> FALSE, limited |-> FALSE]

\* what a constructor is called with: ctx tells whether it receives the
\* context, rt is the transport ("nil", "plain" from backend.Transport,
\* "limited" once lim.Transport wrapped it), lim whether it gets the limiter
NoCall == [fn |-> "none", scheme |-> "nil", ctx |-> FALSE, rt |-> "nil", lim |-> FALSE]

Call(fn, scheme, ctx, rt, lim) == [fn |-> fn, scheme |-> scheme, ctx |-> ctx, rt |-> rt, lim |-> lim]

\* the switch of Open: the constructor call of each case
OpenCases == {"local", "sftp", "s3", "gs", "azure", "swift", "b2", "rest", "rclone"}

OpenCall(name, rt) ==
    CASE name = "local" -> Call("local.Open", name, TRUE, "nil", FALSE)
      [] name = "sftp" -> Call("sftp.Open", name, TRUE, "nil", FALSE)
      [] name = "s3" -> Call("s3.Open", name, TRUE, rt, FALSE)
      [] name = "gs" -> Call("gs.Open", name, FALSE, rt, FALSE)
      [] name = "azure" -> Call("azure.Open", name, FALSE, rt, FALSE)
      [] name = "swift" -> Call("swift.Open", name, TRUE, rt, FALSE)
      [] name = "b2" -> Call("b2.Open", name, TRUE, rt, FALSE)
      [] name = "rest" -> Call("rest.Open", name, FALSE, rt, FALSE)
      [] name = "rclone" -> Call("rclone.Open", name, FALSE, "nil", TRUE)

\* the switch of Create
CreateCases == {"local", "sftp", "s3", "gs", "azure", "swift", "b2", "rest", "rclone"}

CreateCall(name, rt) ==
    CASE name = "local" -> Call("local.Create", name, TRUE, "nil", FALSE)
      [] name = "sftp" -> Call("sftp.Create", name, TRUE, "nil", FALSE)
      [] name = "s3" -> Call("s3.Create", name, TRUE, rt, FALSE)
      [] name = "gs" -> Call("gs.Create", name, FALSE, rt, FALSE)
      [] name = "azure" -> Call("azure.Create", name, FALSE, rt, FALSE)
      [] name = "swift" -> Call("swift.Open", name, TRUE, rt, FALSE)
      [] name = "b2" -> Call("b2.Create", name, TRUE, rt, FALSE)
      [] name = "rest" -> Call("rest.Create", name, TRUE, rt, FALSE)
      [] name = "rclone" -> Call("rclone.Create", name, TRUE, "nil", FALSE)

CancelErr == New("cancelled", <<Lit("context canceled")>>)
BackendErr == New("construct", <<Lit("backend error")>>)

\* A backend constructor.  One that receives the context returns the
\* context's error and no handle when the context is cancelled before it
\* completes; one that does not receive it cannot see the cancellation.
\* outcome is what the backend answers otherwise.
Construct(call, ctxCancelled, outcome) ==
    IF call.ctx /\ ctxCancelled THEN [be |-> NilBackend, err |-> CancelErr]
    ELSE IF outcome # "ok" THEN [be |-> NilBackend, err |-> BackendErr]
    ELSE [be |-> [scheme |-> call.scheme, rt |-> call.rt, lim |-> call.lim, limited |-> FALSE],
          err |-> NilErr]

\* backend.Transport(tropts)
Transport(transportOk) ==
    IF transportOk THEN [rt |-> "plain", err |-> NilErr]
    ELSE [rt |-> "nil", err |-> New("transport", <<Lit("backend.Transport")>>)]

\* the transport left unwrapped
LimitTransport_none(rt) == rt

\* lim.Transport(rt)
LimitTransport(rt) == "limited"

\* limiter.LimitBackend(be, lim)
LimitBackend(be) == [be EXCEPT !.limited = TRUE]

\* the parser's error returned as it is, as Create does
LocationFailed_bare(err) == err

\* Open's return when parseLocation failed
LocationFailed(err) ==
    Fatalf("location", <<Lit("parsing repository location failed: ")>> \o err.msg)

\* What a call of Open or Create leaves behind: be and err are the returned
\* values, the other fields record how far the call went.
NoResult ==
    [be |-> NilBackend, err |-> NilErr, stage |-> "none", calls |-> <<>>,
     u |-> NoLocation, filled |-> NoConfig, cfg |-> NoConfig,
     call |-> NoCall, ctorErr |-> NilErr, invalid |-> FALSE, debug |-> <<>>]

\* O: the answers of the collaborators (parseOk, cfg, localOk, applyOk,
\* swiftEnvOk, transportOk, ctor)
Open(s, env, ctxCancelled, O) ==
    LET base == [NoResult EXCEPT !.debug = <<StripPassword(s)>>]
        pl == parseLocation(s, O)
        located == [base EXCEPT !.calls = pl.calls, !.u = pl.u]
        pc == parseConfig(pl.u, env, O)
        configured == [located EXCEPT !.filled = pc.filled, !.cfg = pc.cfg, !.invalid = pc.invalid]
        name == SchemeName(pl.u.Scheme)
        usesHTTP == pl.u.Scheme # S_local /\ pl.u.Scheme # S_sftp
        tr == Transport(O.transportOk)
        rt == IF usesHTTP THEN LimitTransport(tr.rt) ELSE "nil"
        call == OpenCall(name, rt)
        c == Construct(call, ctxCancelled, O.ctor)
        called == [configured EXCEPT !.call = call, !.ctorErr = c.err]
    IN  IF pl.err # NilErr
        THEN [located EXCEPT !.stage = "parseLocation", !.err = LocationFailed(pl.err)]
        ELSE IF pc.err # NilErr
        THEN [configured EXCEPT !.stage = "parseConfig", !.err = pc.err]
        ELSE IF usesHTTP /\ tr.err # NilErr
        THEN [configured EXCEPT !.stage = "transport", !.err = tr.err]
        ELSE IF name \notin OpenCases
        THEN [configured EXCEPT !.stage = "invalid", !.invalid = TRUE,
                 !.err = Fatalf("invalid", <<Lit("invalid backend: "), Loc(pl.u.Scheme)>>)]
        ELSE IF c.err # NilErr
        THEN [called EXCEPT !.stage = "construct",
                 !.err = Fatalf("open", <<Lit("unable to open repo at "), Loc(StripPassword(s)), Lit(": ")>>
                                            \o c.err.msg)]
        ELSE IF ~usesHTTP
        THEN [called EXCEPT !.stage = "ok", !.be = LimitBackend(c.be)]
        ELSE [called EXCEPT !.stage = "ok", !.be = c.be]

Create(s, env, ctxCancelled, O) ==
    LET base == [NoResult EXCEPT !.debug = <<StripPassword(s)>>]
        pl == parseLocation(s, O)
        located == [base EXCEPT !.calls = pl.calls, !.u = pl.u]
        pc == parseConfig(pl.u, env, O)
        configured == [located EXCEPT !.filled = pc.filled, !.cfg = pc.cfg, !.invalid = pc.invalid]
        name == SchemeName(pl.u.Scheme)
        tr == Transport(O.transportOk)
        call == CreateCall(name, tr.rt)
        c == Construct(call, ctxCancelled, O.ctor)
        called == [configured EXCEPT !.call = call, !.ctorErr = c.err]
    IN  IF pl.err # NilErr
        THEN [located EXCEPT !.stage = "parseLocation", !.err = pl.err]
        ELSE IF pc.err # NilErr
        THEN [configured EXCEPT !.stage = "parseConfig", !.err = pc.err]
        ELSE IF tr.err # NilErr
        THEN [configured EXCEPT !.stage = "transport", !.err = tr.err]
        ELSE IF name \notin CreateCases
        THEN [configured EXCEPT !.stage = "invalid", !.invalid = TRUE,
                 !.debug = <<StripPassword(s), s>>,
                 !.err = Fatalf("invalid", <<Lit("invalid scheme "), Loc(pl.u.Scheme)>>)]
        ELSE IF c.err # NilErr
        THEN [called EXCEPT !.stage = "construct", !.err = c.err]
        ELSE [called EXCEPT !.stage = "ok", !.be = c.be]

\* ------------------------------------------------------------ state machine
\* One call of one function of the package, from its inputs to its return:
\*   op            the function called
\*   s             its location string
\*   env           the process environment during the call
\*   ctxCancelled  the context is cancelled before the constructor completes
\*   O             the collaborators' answers during the call
\*   pc            "call" before, "done" after
\*   ret           what Open / Create returned and how far it went
\*   loc           what parseLocation returned
\*   out           what isPath (a boolean) or StripPassword (a string) returned
VARIABLES op, s, env, ctxCancelled, O, pc, ret, loc, out

vars == <<op, s, env, ctxCancelled, O, pc, ret, loc, out>>

ProbeStrings == StringsUpTo(ProbeBytes, MaxLen)

TableSchemes == {parsers[i].scheme : i \in 1..Len(parsers)}

\* "rest:u:p@h" and "rest:u@h"
RestWithPassword == S_rest \o <<Colon, 117, Colon, 112, 64, 104>>
RestWithUser == S_rest \o <<Colon, 117, 64, 104>>

SchemeStrings ==
    TableSchemes \cup {b \o <<Colon>> : b \in TableSchemes}
        \cup {b \o <<Colon, 97>> : b \in TableSchemes}
        \cup {RestWithPassword, RestWithUser}

Locations == StringsUpTo(LocBytes, MaxLocLen) \cup SchemeStrings

EmptyEnv == [v \in EnvVars |-> ""]

\* the variables parseConfig reads for a backend
EnvVarsOf(name) ==
    CASE name = "s3" -> {"AWS_ACCESS_KEY_ID", "AWS_SECRET_ACCESS_KEY", "AWS_DEFAULT_REGION"}
      [] name = "gs" -> {"GOOGLE_PROJECT_ID"}
      [] name = "azure" -> {"AZURE_ACCOUNT_NAME", "AZURE_ACCOUNT_KEY"}
      [] name = "b2" -> {"B2_ACCOUNT_ID", "B2_ACCOUNT_KEY"}
      [] OTHER -> {}

\* the environments of a call on string t: every value of the variables its
\* backend reads, the other variables unset
EnvsFor(t) ==
    LET read == EnvVarsOf(SchemeName(extractScheme(t)))
    IN  {e \in [EnvVars -> EnvValues] : \A v \in EnvVars \ read : e[v] = ""}

NoAnswers ==
    [parseOk |-> TRUE, cfg |-> NoConfig, localOk |-> TRUE, applyOk |-> TRUE,
     swiftEnvOk |-> TRUE, transportOk |-> TRUE, ctor |-> "ok"]

\* the answers the parsers can give on string t
ParseAnswers(t) ==
    LET name == SchemeName(extractScheme(t))
    IN  {[NoAnswers EXCEPT !.parseOk = TRUE, !.cfg = c, !.localOk = l] :
             c \in ConfigsOf(name), l \in BOOLEAN}
        \cup {[NoAnswers EXCEPT !.parseOk = FALSE, !.localOk = l] : l \in BOOLEAN}

\* the answers all collaborators can give during Open / Create on string t
Answers(t) ==
    {[a EXCEPT !.applyOk = ap, !.swiftEnvOk = sw, !.transportOk = tr, !.ctor = c] :
        a \in ParseAnswers(t), ap \in BOOLEAN,
        sw \in IF extractScheme(t) = S_swift THEN BOOLEAN ELSE {TRUE},
        tr \in BOOLEAN, c \in {"ok", "fail"}}

NoLocResult == [u |-> NoLocation, err |-> NilErr, calls |-> <<>>]

Init ==
    /\ op \in {"isPath", "parseLocation", "StripPassword", "Open", "Create"}
    /\ s \in CASE op = "isPath" -> ProbeStrings
               [] op = "parseLocation" -> ProbeStrings \cup SchemeStrings
               [] OTHER -> Locations
    /\ env \in IF op \in {"Open", "Create"} THEN EnvsFor(s) ELSE {EmptyEnv}
    /\ ctxCancelled \in IF op \in {"Open", "Create"} THEN BOOLEAN ELSE {FALSE}
    /\ O = NoAnswers
    /\ pc = "call"
    /\ ret = NoResult
    /\ loc = NoLocResult
    /\ out = <<>>

DoIsPath ==
    /\ pc = "call" /\ op = "isPath"
    /\ out' = <<isPath(s)>>
    /\ pc' = "done"
    /\ UNCHANGED <<op, s, env, ctxCancelled, O, ret, loc>>

DoParseLocation ==
    /\ pc = "call" /\ op = "parseLocation"
    /\ \E a \in ParseAnswers(s) :
          /\ O' = a
          /\ loc' = parseLocation(s, a)
    /\ pc' = "done"
    /\ UNCHANGED <<op, s, env, ctxCancelled, ret, out>>

DoStripPassword ==
    /\ pc = "call" /\ op = "StripPassword"
    /\ out' = <<StripPassword(s)>>
    /\ pc' = "done"
    /\ UNCHANGED <<op, s, env, ctxCancelled, O, ret, loc>>

DoOpen ==
    /\ pc = "call" /\ op = "Open"
    /\ \E a \in Answers(s) :
          /\ O' = a
          /\ ret' = Open(s, env, ctxCancelled, a)
    /\ pc' = "done"
    /\ UNCHANGED <<op, s, env, ctxCancelled, loc, out>>

DoCreate ==
    /\ pc = "call" /\ op = "Create"
    /\ \E a \in Answers(s) :
          /\ O' = a
          /\ ret' = Create(s, env, ctxCancelled, a)
    /\ pc' = "done"
    /\ UNCHANGED <<op, s, env, ctxCancelled, loc, out>>

Next == DoIsPath \/ DoParseLocation \/ DoStripPassword \/ DoOpen \/ DoCreate

Spec == Init /\ [][Next]_vars

\* ================================================================== claims
Done(f) == pc = "done" /\ op = f

\* the text before the first ':' of t, all of t when it has none
BeforeColon(t) ==
    IF \A i \in 1..Len(t) : t[i] # Colon THEN t
    ELSE LET i == CHOOSE k \in 1..Len(t) : t[k] = Colon /\ \A j \in 1..(k - 1) : t[j] # Colon
         IN  SubSeq(t, 1, i - 1)

NoColon(t) == \A i \in 1..Len(t) : t[i] # Colon

AsciiLetters == (65..90) \cup (97..122)

\* C1: for every string s without ':', parseLocation yields Scheme "local"
\* and succeeds exactly when local.ParseConfig accepts "local:" + s, also
\* when s is the name of a backend.
C1_NoColonMeansLocal ==
    (Done("parseLocation") /\ NoColon(s)) =>
        /\ (loc.err = NilErr) <=> O.localOk
        /\ loc.err = NilErr => loc.u.Scheme = S_local

Returned == pc = "done" /\ op \in {"Open", "Create"}

\* the call got as far as parseConfig / as far as the constructor
ReachedConfig == Returned /\ ret.stage \notin {"none", "parseLocation"}
ReachedConstructor == Returned /\ ret.stage \in {"construct", "ok"}

\* the value of a field once the environment is consulted: the value the
\* location string embeds, else the value of the variable
Resolved(field, var) == IF O.cfg[field] # "" THEN O.cfg[field] ELSE env[var]

\* the paired credentials: backend, the two fields, their variables
Pairs ==
    {[type |-> "s3", f1 |-> "KeyID", v1 |-> "AWS_ACCESS_KEY_ID",
                     f2 |-> "Secret", v2 |-> "AWS_SECRET_ACCESS_KEY"],
     [type |-> "azure", f1 |-> "AccountName", v1 |-> "AZURE_ACCOUNT_NAME",
                        f2 |-> "AccountKey", v2 |-> "AZURE_ACCOUNT_KEY"],
     [type |-> "b2", f1 |-> "AccountID", v1 |-> "B2_ACCOUNT_ID",
                     f2 |-> "Key", v2 |-> "B2_ACCOUNT_KEY"]}

\* C3: for s3, azure and b2, parseConfig succeeds only if after the
\* environment fallback both fields of the credential pair are non-empty or
\* both are empty; with exactly one present it fails with a fatal error
\* that names the environment variable of the missing half.
C3_PairedCredentials ==
    \A p \in Pairs :
        (ReachedConfig /\ ret.u.Config.type = p.type) =>
            LET a == Resolved(p.f1, p.v1)
                b == Resolved(p.f2, p.v2)
            IN  /\ ret.stage # "parseConfig" => ((a = "") <=> (b = ""))
                /\ (a = "" /\ b # "") =>
                       ret.stage = "parseConfig" /\ ret.err.fatal /\ MsgHasLit(ret.err, p.v1)
                /\ (a # "" /\ b = "") =>
                       ret.stage = "parseConfig" /\ ret.err.fatal /\ MsgHasLit(ret.err, p.v2)

\* the fields with an environment fallback: backend, field, variable
FallbackFields ==
    {[type |-> "s3", f |-> "KeyID", v |-> "AWS_ACCESS_KEY_ID"],
     [type |-> "s3", f |-> "Secret", v |-> "AWS_SECRET_ACCESS_KEY"],
     [type |-> "s3", f |-> "Region", v |-> "AWS_DEFAULT_REGION"],
     [type |-> "gs", f |-> "ProjectID", v |-> "GOOGLE_PROJECT_ID"],
     [type |-> "azure", f |-> "AccountName", v |-> "AZURE_ACCOUNT_NAME"],
     [type |-> "azure", f |-> "AccountKey", v |-> "AZURE_ACCOUNT_KEY"],
     [type |-> "b2", f |-> "AccountID", v |-> "B2_ACCOUNT_ID"],
     [type |-> "b2", f |-> "Key", v |-> "B2_ACCOUNT_KEY"]}

\* C4: in a config that parseConfig has taken through the environment
\* fallback, a field that the location string set keeps that value whatever
\* the variable holds, and a field that it left empty holds the variable's
\* value; the config parseConfig returns has the same fields.
C4_FallbackPrecedence ==
    \A x \in FallbackFields :
        (ReachedConfig /\ ret.filled.type = x.type) =>
            /\ O.cfg[x.f] # "" => ret.filled[x.f] = O.cfg[x.f]
            /\ O.cfg[x.f] = "" => ret.filled[x.f] = env[x.v]
            /\ ret.stage # "parseConfig" => ret.cfg[x.f] = ret.filled[x.f]

C4_Witness ==
    /\ Returned /\ ret.stage = "ok" /\ ret.cfg.type = "s3"
    /\ O.cfg.KeyID = "cfg" /\ env["AWS_ACCESS_KEY_ID"] = "env" /\ ret.cfg.KeyID = "cfg"
    /\ O.cfg.Secret = "" /\ env["AWS_SECRET_ACCESS_KEY"] = "env" /\ ret.cfg.Secret = "env"
    /\ O.cfg.Region = "" /\ env["AWS_DEFAULT_REGION"] = "env" /\ ret.cfg.Region = "env"

NonHTTP == {"local", "sftp"}

\* C5 as stated: every scheme other than local and sftp, rclone included,
\* has its Open constructor receive the limiter-wrapped transport and its
\* handle returned unwrapped; local and sftp receive no transport and their
\* handle is wrapped.
C5_TransportOrHandle ==
    (Done("Open") /\ ret.stage = "ok") =>
        IF ret.call.scheme \in NonHTTP
        THEN ret.call.rt = "nil" /\ ret.be.limited /\ ret.be.rt = "nil"
        ELSE ret.call.rt = "limited" /\ ~ret.be.limited /\ ret.be.rt = "limited"

\* the number of places where the limiter is put on the returned handle
LimiterPoints(be) ==
    (IF be.rt = "limited" THEN 1 ELSE 0) + (IF be.lim THEN 1 ELSE 0)
        + (IF be.limited THEN 1 ELSE 0)

\* C5 amended: after a successful Open the limiter is applied at exactly
\* one point.  local and sftp: no transport to the constructor, handle
\* wrapped.  rclone: the constructor receives the limiter itself and no
\* transport, handle not wrapped.  Every other scheme: the constructor
\* receives the limiter-wrapped transport, handle not wrapped.
C5_OneLimiterPoint ==
    (Done("Open") /\ ret.stage = "ok") =>
        /\ LimiterPoints(ret.be) = 1
        /\ ret.be.scheme = ret.call.scheme
        /\ CASE ret.call.scheme \in NonHTTP ->
                  ret.call.rt = "nil" /\ ~ret.call.lim /\ ret.be.limited
             [] ret.call.scheme = "rclone" ->
                  ret.call.rt = "nil" /\ ret.call.lim /\ ~ret.be.limited
             [] OTHER ->
                  ret.call.rt = "limited" /\ ~ret.call.lim /\ ~ret.be.limited

C5_Witness ==
    /\ Done("Open") /\ ret.stage = "ok"
    /\ ret.call.fn = "rclone.Open" /\ ret.call.lim /\ ret.call.rt = "nil"
    /\ ret.be.lim /\ ~ret.be.limited

\* C6: in Open and in Create, when the backend constructor returns an
\* error, the call returns a fatal error whose text includes
\* StripPassword(s) and, when s differs from it, does not include s.
C6_ConstructorErrorRedacted ==
    (Returned /\ ret.stage = "construct") =>
        /\ ret.err.fatal
        /\ MsgIncludes(ret.err, StripPassword(s))
        /\ s # StripPassword(s) => ~MsgIncludes(ret.err, s)

\* C7 as stated: in Open and in Create, when parseLocation or parseConfig
\* fails, the returned error is fatal and its text includes StripPassword(s).
C7_ParseErrorNamesLocation ==
    (Returned /\ ret.stage \in {"parseLocation", "parseConfig"}) =>
        ret.err.fatal /\ MsgIncludes(ret.err, StripPassword(s))

\* no part of the error's text is a location string
NoLocationText(err) == \A i \in 1..Len(err.msg) : err.msg[i].text = <<>>

\* C7 amended: when parseLocation fails, Open returns a fatal error whose
\* text is "parsing repository location failed: " followed by the parser's
\* error text, and Create returns the parser's error as it is; when
\* parseConfig fails, Open and Create both return its error as it is.  In
\* none of these is the location string part of the text: the
\* password-stripped location goes to the debug log only.
C7_ParseErrorsAsReturned ==
    /\ (Returned /\ ret.stage = "parseLocation") =>
          /\ ret.be = NilBackend
          /\ ret.debug = <<StripPassword(s)>>
          /\ NoLocationText(ret.err)
          /\ IF op = "Open"
             THEN /\ ret.err.fatal
                  /\ Len(ret.err.msg) = 2
                  /\ ret.err.msg[1] = Lit("parsing repository location failed: ")
                  /\ ret.err.msg[2].lit \in {AmbiguousText} \cup
                         {parsers[i].parse : i \in 1..Len(parsers)}
             ELSE /\ ~ret.err.fatal
                  /\ ret.err.kind \in {"ambiguous", "parse"}
                  /\ Len(ret.err.msg) = 1
    /\ (Returned /\ ret.stage = "parseConfig") =>
          /\ ret.be = NilBackend
          /\ ret.debug = <<StripPassword(s)>>
          /\ NoLocationText(ret.err)
          /\ ret.err.kind \in {"credential", "apply", "swiftenv"}

C7_Witness ==
    /\ Done("Open") /\ ret.stage = "parseLocation"
    /\ s = RestWithPassword
    /\ ret.err.fatal
    /\ ~MsgIncludes(ret.err, StripPassword(s))

\* the error is, or carries the text of, the context's cancellation error
IsCancellation(err) == err # NilErr /\ MsgHasLit(err, "context canceled")

\* C8: when the context is cancelled before the constructor completes, Open
\* returns a cancellation error and a nil handle, for every scheme; and Open
\* never returns a handle together with an error.
C8_CancelledOpen ==
    Done("Open") =>
        /\ (ctxCancelled /\ ReachedConstructor) =>
               ret.be = NilBackend /\ IsCancellation(ret.err)
        /\ ~(ret.be # NilBackend /\ ret.err # NilErr)

\* path-shaped, as section 4.1 of the design lists it
PathShaped(t) ==
    \/ Len(t) >= 3 /\ t[1] = Dot /\ t[2] = Dot /\ t[3] \in {Slash, Backslash}
    \/ Len(t) >= 1 /\ t[1] \in {Slash, Backslash}
    \/ Len(t) >= 3 /\ t[1] \in AsciiLetters /\ t[2] = Colon /\ t[3] \in {Slash, Backslash}

\* C9: isPath(s) is true exactly for the strings that start with "../",
\* "..\", "/" or "\", or have length >= 3 with an ASCII letter, ':' and a
\* separator in front; a drive-letter prefix of length < 3 gives false.
C9_IsPath ==
    Done("isPath") =>
        /\ out = <<PathShaped(s)>>
        /\ (Len(s) < 3 /\ Len(s) >= 1 /\ s[1] \in AsciiLetters) => out = <<FALSE>>

C9_Witness ==
    /\ Done("isPath")
    /\ s = <<97, Colon, Slash>>
    /\ out = <<TRUE>>

\* C10: a location that parseLocation returns has the scheme of exactly one
\* table entry, and no call of Open or Create reaches the "invalid backend"
\* / "invalid scheme" return of parseConfig, Open or Create, nor a failing
\* type assertion on the config.
C10_SchemeAlwaysKnown ==
    /\ (Done("parseLocation") /\ loc.err = NilErr) =>
          /\ Cardinality({i \in 1..Len(parsers) : parsers[i].scheme = loc.u.Scheme}) = 1
          /\ SchemeName(loc.u.Scheme) \in ConfigCases \cap OpenCases \cap CreateCases
          /\ loc.u.Config.type = SchemeName(loc.u.Scheme)
    /\ Returned =>
          /\ ~ret.invalid
          /\ ret.stage # "invalid"
          /\ ret.err.kind \notin {"invalid", "panic"}
    /\ \A i, j \in 1..Len(parsers) : parsers[i].scheme = parsers[j].scheme => i = j

C10_Witness ==
    /\ Done("Create") /\ ret.stage = "ok"
    /\ s = S_rclone \o <<Colon, 97>>
    /\ ret.call.fn = "rclone.Create"
====
